---- MODULE Spec2Model ----
(***************************************************************************)
(* go-recipe: the command-execution engine (pkg/update/executor.go) and    *)
(* the Bubble Tea update loop that drives it (pkg/update/update.go).       *)
(*                                                                         *)
(* Strings are sequences of one-character strings, paths are sequences of  *)
(* path tokens.  The loop (Update) handles one message per step; the run   *)
(* task started by executeCommand, the detached task and the child         *)
(* processes take their own steps between the loop's steps.                *)
(***************************************************************************)
EXTENDS Integers, Sequences, FiniteSets, Bags, TLC

(***************************************************************************)
(* Bounds of the model.                                                    *)
(***************************************************************************)
\* longest command text the strategy calls are tried on
MaxLen == 3
\* execute requests (Enter presses in the list) per behaviour
MaxExec == 2
\* output chunks one child writes
MaxWrites == 1
\* most lines of output the execution view is scrolled over
MaxLines == 20
\* longest text typed into a form field
MaxBuf == 1
\* config.SaveConfig calls per behaviour of the catalog editor
MaxSaves == 3
\* execute requests per behaviour of the catalog editor
MaxRuns == 1
\* the last second the clock reaches
MaxNow == 5
\* flushes of output one child of a streaming session writes
MaxFlushes == 3

(***************************************************************************)
(* Text: strings.TrimSpace and strings.Fields over the alphabet {a, space}.*)
(***************************************************************************)
Chars == {"a", " "}

IsSpace(c) == c = " "

RECURSIVE TrimLeft(_)
TrimLeft(s) ==
    IF s = <<>> THEN s
    ELSE IF IsSpace(Head(s)) THEN TrimLeft(Tail(s)) ELSE s

RECURSIVE TrimRight(_)
TrimRight(s) ==
    IF s = <<>> THEN s
    ELSE IF IsSpace(s[Len(s)]) THEN TrimRight(SubSeq(s, 1, Len(s) - 1)) ELSE s

TrimSpace(s) == TrimRight(TrimLeft(s))

RECURSIVE FieldsAcc(_, _, _)
FieldsAcc(s, cur, acc) ==
    IF s = <<>>
    THEN IF cur = <<>> THEN acc ELSE Append(acc, cur)
    ELSE IF IsSpace(Head(s))
         THEN FieldsAcc(Tail(s), <<>>, IF cur = <<>> THEN acc ELSE Append(acc, cur))
         ELSE FieldsAcc(Tail(s), Append(cur, Head(s)), acc)

Fields(s) == FieldsAcc(s, <<>>, <<>>)

RECURSIVE SeqsUpTo(_, _)
SeqsUpTo(S, n) ==
    IF n = 0 THEN {<<>>}
    ELSE LET shorter == SeqsUpTo(S, n - 1)
         IN  shorter \cup {Append(s, c) : s \in shorter, c \in S}

Texts == SeqsUpTo(Chars, MaxLen)

(***************************************************************************)
(* Paths and the environment of the resolver.                              *)
(***************************************************************************)
Home == <<"/", "h">>
Cwd == <<"/", "w">>
Dirs == {<<"/">>, Home, Cwd, <<"/", "d">>, Home \o <<"/", "d">>, Cwd \o <<"/", "d">>}

\* an environment: HOME set or not and its value, the value of the variable
\* named cwd (empty when unset), and whether os.Getwd succeeds
Envs ==
    [homeSet : BOOLEAN, homeDir : {Home}, cwdVar : {<<>>, <<"/", "d">>}, getwdOk : BOOLEAN]
DefaultEnv == [homeSet |-> TRUE, homeDir |-> Home, cwdVar |-> <<>>, getwdOk |-> TRUE]

\* values of HOME: a directory, a path that names no directory, a relative path
HomeDirs == {Home, <<"/", "x">>, <<"h">>}

\* the environments the resolver is called in
ResolverEnvs ==
    [homeSet : BOOLEAN, homeDir : HomeDirs, cwdVar : {<<>>, <<"/", "d">>},
     getwdOk : BOOLEAN]

WorkingDirModes == {"", "current", "home", "absolute", " Home", "ABSOLUTE", "temp"}

WorkingDirPaths ==
    { <<>>, <<" ">>, <<"/", "d">>, <<"/", "f">>, <<"/", "x">>, <<"d">>,
      <<"~">>, <<"~", "/", "d">>, <<"~", "x">>, <<"$HOME">>, <<"$HOME", "/", "d">>,
      <<"${cwd}">>, <<"${cwd}", "/", "d">> }

\* strings.ToLower(strings.TrimSpace(mode)) on the mode values above
NormalizeMode(mode) ==
    CASE mode = " Home" -> "home"
      [] mode = "ABSOLUTE" -> "absolute"
      [] OTHER -> mode

\* os.UserHomeDir: $HOME, an error when it is empty
UserHomeDir(env) ==
    [ok |-> env.homeSet, dir |-> IF env.homeSet THEN env.homeDir ELSE <<>>]

\* os.ExpandEnv: $HOME and ${cwd} are both references to environment variables
RECURSIVE ExpandEnv(_, _)
ExpandEnv(p, env) ==
    IF p = <<>> THEN <<>>
    ELSE LET t == Head(p)
             v == CASE t = "$HOME" -> UserHomeDir(env).dir
                    [] t = "${cwd}" -> env.cwdVar
                    [] OTHER -> <<t>>
         IN  v \o ExpandEnv(Tail(p), env)

\* filepath.Clean on token paths: runs of "/" collapse, a trailing "/" is dropped
RECURSIVE Clean(_)
Clean(p) ==
    IF Len(p) <= 1 THEN p
    ELSE IF p[1] = "/" /\ p[2] = "/" THEN Clean(Tail(p))
    ELSE IF Len(p) = 2 /\ p[2] = "/" THEN <<p[1]>>
    ELSE <<p[1]>> \o Clean(Tail(p))

\* filepath.Join(a, b)
Join(a, b) == IF b = <<>> THEN Clean(a) ELSE Clean(a \o <<"/">> \o b)

RECURSIVE ReplaceAll(_, _, _)
ReplaceAll(p, tok, by) ==
    IF p = <<>> THEN <<>>
    ELSE (IF Head(p) = tok THEN by ELSE <<Head(p)>>) \o ReplaceAll(Tail(p), tok, by)

Contains(p, tok) == \E i \in 1..Len(p) : p[i] = tok

IsAbs(p) == p # <<>> /\ p[1] = "/"

IsDir(p) == Clean(p) \in Dirs

IsBlankPath(p) == \A i \in 1..Len(p) : p[i] = " "

PathResult(ok, dir, err) == [ok |-> ok, dir |-> dir, err |-> err]

\* step 3 of expandDirPlaceholders: the ${cwd} token
ExpandCwd(p, env) ==
    IF ~Contains(p, "${cwd}") THEN PathResult(TRUE, p, "")
    ELSE IF ~env.getwdOk
         THEN PathResult(FALSE, <<>>, "failed to resolve current working directory")
         ELSE PathResult(TRUE, ReplaceAll(p, "${cwd}", Cwd), "")

\* step 2 of expandDirPlaceholders: a leading ~
ExpandTilde(p, home, env) ==
    IF p = <<>> \/ p[1] # "~" THEN ExpandCwd(p, env)
    ELSE IF ~home.ok THEN PathResult(FALSE, <<>>, "failed to expand ~")
    ELSE IF p = <<"~">> THEN ExpandCwd(home.dir, env)
    ELSE IF Len(p) >= 2 /\ p[2] = "/"
         THEN ExpandCwd(Join(home.dir, SubSeq(p, 3, Len(p))), env)
         ELSE ExpandCwd(p, env)

expandDirPlaceholders(p, env) == ExpandTilde(ExpandEnv(p, env), UserHomeDir(env), env)

\* the checks of the "absolute" case on the expanded path
CheckAbsolute(e) ==
    IF ~e.ok THEN e
    ELSE IF ~IsAbs(e.dir)
         THEN PathResult(FALSE, <<>>, "working directory must be an absolute path")
    ELSE IF ~IsDir(e.dir)
         THEN PathResult(FALSE, <<>>, "working directory does not exist")
    ELSE PathResult(TRUE, e.dir, "")

resolveWorkingDir(command, env) ==
    LET mode == NormalizeMode(command.WorkingDirMode)
    IN  CASE mode \in {"", "current"} -> PathResult(TRUE, <<>>, "")
          [] mode = "home" ->
                IF UserHomeDir(env).ok THEN PathResult(TRUE, UserHomeDir(env).dir, "")
                ELSE PathResult(FALSE, <<>>, "failed to resolve home directory")
          [] mode = "absolute" ->
                IF IsBlankPath(command.WorkingDirPath)
                THEN PathResult(FALSE, <<>>, "working directory path is required")
                ELSE CheckAbsolute(expandDirPlaceholders(command.WorkingDirPath, env))
          [] OTHER -> PathResult(FALSE, <<>>, "unknown WorkingDirMode")

(***************************************************************************)
(* Commands and execution strategies (pkg/update/executor.go).             *)
(***************************************************************************)
Command(id, text, useShell, interactive, mode, path) ==
    [ID |-> id, Name |-> <<>>, Command |-> text, Category |-> <<>>, Description |-> <<>>,
     Tags |-> <<>>, UseShell |-> useShell, Interactive |-> interactive,
     WorkingDirMode |-> mode, WorkingDirPath |-> path, LastRun |-> 0]

\* what the operating system does with a child once exec is asked to run it
ProcOutcomes ==
    { [starts |-> FALSE, code |-> 0, stdout |-> <<>>, stderr |-> <<>>],
      [starts |-> TRUE, code |-> 0, stdout |-> <<"o">>, stderr |-> <<>>],
      [starts |-> TRUE, code |-> 3, stdout |-> <<"o">>, stderr |-> <<"e">>],
      [starts |-> TRUE, code |-> 3, stdout |-> <<>>, stderr |-> <<"e">>] }

\* the exec.Cmd a strategy has built, or the error it returned before building it
Prepared(err, viaShell, argv, dir) ==
    [err |-> err, viaShell |-> viaShell, argv |-> argv, dir |-> dir]

\* cmd.Dir assignment shared by all strategies: fail fast on a resolution error
SetDir(r, viaShell, argv) ==
    IF r.ok THEN Prepared("", viaShell, argv, r.dir)
    ELSE Prepared(r.err, viaShell, argv, <<>>)

WithDir(command, env, viaShell, argv) ==
    SetDir(resolveWorkingDir(command, env), viaShell, argv)

\* exec.Command(shell, "-lc", text) or exec.Command(parts[0], parts[1:]...)
BuildCmd(command, env, viaShell) ==
    IF viaShell THEN WithDir(command, env, TRUE, <<command.Command>>)
    ELSE IF Fields(command.Command) = <<>>
         THEN Prepared("empty command", FALSE, <<>>, <<>>)
         ELSE WithDir(command, env, FALSE, Fields(command.Command))

\* the first lines of ExecuteCommand: only UseShell selects the shell
PrepareCapture(command, env) ==
    IF TrimSpace(command.Command) = <<>>
    THEN Prepared("empty command", FALSE, <<>>, <<>>)
    ELSE BuildCmd(command, env, command.UseShell)

\* the first lines of ExecuteCommandStreaming and ExecuteCommandInteractiveAttached
PrepareStreaming(command, env) ==
    IF TrimSpace(command.Command) = <<>>
    THEN Prepared("empty command", FALSE, <<>>, <<>>)
    ELSE BuildCmd(command, env, command.UseShell \/ command.Interactive)

\* the first lines of StartInteractiveProcess and StartInteractivePTY
PrepareStart(command, env) ==
    BuildCmd(command, env, command.UseShell \/ command.Interactive)

\* a derivation that differs from the code: an error that is not an exit error
\* leaves the exit code 0
ExitCodeOfExitErrorOnly(proc) ==
    IF ~proc.starts THEN 0 ELSE proc.code

\* exit-code derivation after cmd.Run()
ExitCodeOf(proc) ==
    IF ~proc.starts THEN -1 ELSE proc.code

RunError(proc) ==
    IF ~proc.starts THEN "start" ELSE IF proc.code # 0 THEN "exit status" ELSE ""

\* stdout, then stderr, a newline between them only when stdout is not empty
CombineOutput(proc) ==
    IF proc.stderr = <<>> THEN proc.stdout
    ELSE IF proc.stdout = <<>> THEN proc.stderr
    ELSE proc.stdout \o <<"\n">> \o proc.stderr

\* what a strategy call reports: the Result fields (hasResult: a Result is
\* returned at all), and whether a child process was started
Outcome(prep, hasResult, err, exitCode, output, started) ==
    [prep |-> prep, hasResult |-> hasResult, Error |-> err, ExitCode |-> exitCode,
     Output |-> output, started |-> started]

\* cmd.Run() of a strategy that returns a Result
RunPrepared(prep, proc, output) ==
    IF prep.err # "" THEN Outcome(prep, TRUE, prep.err, -1, <<>>, FALSE)
    ELSE Outcome(prep, TRUE, RunError(proc), ExitCodeOf(proc),
                 IF proc.starts THEN output ELSE <<>>, proc.starts)

\* cmd.Start() / pty.Start(cmd) of a strategy that returns the process
StartPrepared(prep, proc) ==
    IF prep.err # "" THEN Outcome(prep, FALSE, prep.err, 0, <<>>, FALSE)
    ELSE Outcome(prep, FALSE, IF proc.starts THEN "" ELSE "start", 0, <<>>, proc.starts)

ExecuteCommand(command, env, proc) ==
    RunPrepared(PrepareCapture(command, env), proc, CombineOutput(proc))

\* the output goes to the stream: Result.Output stays empty
ExecuteCommandStreaming(command, env, proc) ==
    RunPrepared(PrepareStreaming(command, env), proc, <<>>)

ExecuteCommandInteractiveAttached(command, env, proc) ==
    RunPrepared(PrepareStreaming(command, env), proc, <<>>)

\* returns (*exec.Cmd, error): no Result, the error of cmd.Start() only
StartInteractiveProcess(command, env, proc) ==
    StartPrepared(PrepareStart(command, env), proc)

\* returns (*exec.Cmd, *os.File, error): the error of pty.Start(cmd) only
StartInteractivePTY(command, env, proc) ==
    StartPrepared(PrepareStart(command, env), proc)

Strategies ==
    {"ExecuteCommand", "ExecuteCommandStreaming", "ExecuteCommandInteractiveAttached",
     "StartInteractiveProcess", "StartInteractivePTY"}

RunStrategy(fn, command, env, proc) ==
    CASE fn = "ExecuteCommand" -> ExecuteCommand(command, env, proc)
      [] fn = "ExecuteCommandStreaming" -> ExecuteCommandStreaming(command, env, proc)
      [] fn = "ExecuteCommandInteractiveAttached" ->
            ExecuteCommandInteractiveAttached(command, env, proc)
      [] fn = "StartInteractiveProcess" -> StartInteractiveProcess(command, env, proc)
      [] fn = "StartInteractivePTY" -> StartInteractivePTY(command, env, proc)

(***************************************************************************)
(* The application state (pkg/model/model.go, pkg/update/update.go).       *)
(***************************************************************************)
VARIABLES
    m,          \* the model.Model value the Application holds
    heap,       \* backing arrays of the []Command slices, by array number
    config,     \* the persisted catalog (config.SaveConfig / LoadConfig)
    execMsgs,   \* bag of ExecuteCommandMsg produced and not yet handled
    polls,      \* number of StreamPollMsg timers scheduled and not yet handled
    tasks,      \* run tasks (runCmd closures and detached goroutines), by number
    files,      \* content of the sink / log file of each task, by the same number
    terminals,  \* Terminal windows opened by openInTerminal
    darwin,     \* isDarwin()
    now,        \* time.Now()
    quit,       \* tea.Quit was returned: the program has ended
    nExec,      \* execute requests issued so far
    call,       \* the last direct call of a strategy function
    blocked,    \* the ExecuteCommandMsg whose handling waits for osascript to
                \* exit (<<>>: Update is not waiting for a process)
    saveCalls   \* number of config.SaveConfig calls made so far

vars == <<m, heap, config, execMsgs, polls, tasks, files, terminals, darwin, now,
          quit, nExec, call, blocked, saveCalls>>

loopVars == <<m, execMsgs, polls, quit, nExec>>
taskVars == <<tasks, files, heap, config>>

\* model.AppMode
ModeNormal == 0
ModeFilterInput == 1
ModeFormEdit == 2

\* terminal heights tried by WindowSizeMsg: 24 rows show 14 lines, 12 rows show 5
Heights == {24, 12}

\* what one write of a child appends to its sink
Chunks == {<<"o", "\n">>}

NoCommand == Command("", <<>>, FALSE, FALSE, "", <<>>)

\* the default category of a new entry, and the category that selects every entry
System == <<"S", "y", "s", "t", "e", "m">>
All == <<"A", "l", "l">>

\* a catalog entry as the configuration file holds it
Entry(id, name, category, text, useShell, interactive, mode, path) ==
    [Command(id, text, useShell, interactive, mode, path)
        EXCEPT !.Name = name, !.Category = category]

\* the catalog config.LoadConfig returns at start-up
Catalog ==
    << Entry("1", <<"a">>, System, <<"a">>, FALSE, FALSE, "", <<>>),
       Entry("2", <<"b">>, System, <<" ">>, TRUE, FALSE, "current", <<>>),
       Entry("3", <<"c">>, <<"n">>, <<"a">>, FALSE, TRUE, "absolute", <<"/", "f">>) >>

\* a []Command value: a backing array and a length (array 0: a nil slice)
SliceOf(arr, len) == [arr |-> arr, len |-> len]
ElemsIn(h, s) == IF s.len = 0 THEN <<>> ELSE SubSeq(h[s.arr], 1, s.len)
Elems(s) == ElemsIn(heap, s)

\* update.Result
Result(command, output, err, exitCode) ==
    [Command |-> command, Output |-> output, Error |-> err, ExitCode |-> exitCode]
NoResult == Result(NoCommand, <<>>, "", 0)

\* m.ExecutionOutput: a fixed head ("", the "Executing command..." banner or a
\* FormatOutput report) followed by the bytes poll ticks appended
OutputText(head, res, tail) == [head |-> head, res |-> res, tail |-> tail]
EmptyOutput == OutputText("", NoResult, <<>>)
ExecutingOutput == OutputText("Executing command...", NoResult, <<>>)

\* the report: command text, start time, duration, exit code, output, error.
\* The two timestamps are not modelled.
FormatOutput(result) == OutputText("report", result, <<>>)

RECURSIVE Newlines(_)
Newlines(s) ==
    IF s = <<>> THEN 0
    ELSE (IF Head(s) = "\n" THEN 1 ELSE 0) + Newlines(Tail(s))

\* len(strings.Split(m.ExecutionOutput, "\n"))
LineCount(out) ==
    (IF out.head = "report"
     THEN 7 + Newlines(out.res.Output) + (IF out.res.Error # "" THEN 2 ELSE 0)
     ELSE 1) + Newlines(out.tail)

\* m.Error: the message and the log path it names (0: none)
ErrorText(kind, path) == [kind |-> kind, path |-> path]
NoError == ErrorText("", 0)

\* strings.ToLower over the letters used here
ToLowerChar(c) == IF c = "S" THEN "s" ELSE IF c = "A" THEN "a" ELSE c
ToLower(t) == [i \in 1..Len(t) |-> ToLowerChar(t[i])]

\* strings.Contains(t, sub)
ContainsStr(t, sub) ==
    \E i \in 0..(Len(t) - Len(sub)) : SubSeq(t, i + 1, i + Len(sub)) = sub

\* config.GetCategories: the categories of the catalog, each once, in the order
\* of their first entry (package config is not part of the source tree)
RECURSIVE GetCategories(_)
GetCategories(cmds) ==
    IF cmds = <<>> THEN <<>>
    ELSE LET before == GetCategories(SubSeq(cmds, 1, Len(cmds) - 1))
             last == cmds[Len(cmds)].Category
         IN  IF \E i \in 1..Len(before) : before[i] = last THEN before
             ELSE Append(before, last)

\* model.FormField
FieldName == 0
FieldCommand == 1
FieldCategory == 2
FieldDescription == 3
FieldTags == 4
FieldCount == 5

\* model.NewModel followed by initializeModel
NewModel(runInBackground) ==
    [AllCommands |-> SliceOf(1, Len(Catalog)),
     VisibleCommands |-> SliceOf(1, Len(Catalog)),
     Categories |-> GetCategories(Catalog),
     SelectedIndex |-> 0,
     FilterText |-> <<>>,
     ActiveCategory |-> <<>>,
     RunInBackground |-> runInBackground,
     ShowHelp |-> FALSE,
     ShowForm |-> FALSE,
     FormCommand |-> NoCommand,
     ActiveFormField |-> FieldName,
     EditingFormField |-> FALSE,
     FormInputBuffer |-> <<>>,
     CurrentMode |-> ModeNormal,
     InputBuffer |-> <<>>,
     Executing |-> FALSE,
     ExecutingCommand |-> <<>>,
     ExecutionOutput |-> EmptyOutput,
     OutputScrollPosition |-> 0,
     ExecutionLogPath |-> 0,
     ExecutionLogOffset |-> 0,
     Error |-> NoError,
     Height |-> 24]

NoCall ==
    [fn |-> "", command |-> NoCommand, env |-> DefaultEnv,
     proc |-> [starts |-> FALSE, code |-> 0, stdout |-> <<>>, stderr |-> <<>>],
     out |-> Outcome(Prepared("", FALSE, <<>>, <<>>), FALSE, "", 0, <<>>, FALSE)]

Init ==
    /\ \E bg \in BOOLEAN : m = NewModel(bg)
    /\ heap = <<Catalog>>
    /\ config = Catalog
    /\ execMsgs = EmptyBag
    /\ polls = 0
    /\ tasks = <<>>
    /\ files = <<>>
    /\ terminals = {}
    /\ darwin \in BOOLEAN
    /\ now = Len(Catalog) + 1
    /\ quit = FALSE
    /\ nExec = 0
    /\ call = NoCall
    /\ blocked = <<>>
    /\ saveCalls = 0

(***************************************************************************)
(* Key handling.  A handler returns the new model and the tea.Cmd.         *)
(***************************************************************************)
\* a handler's result: the model, the tea.Cmd (kind and its command), the
\* backing arrays after the handler's allocations and writes, and the call of
\* config.SaveConfig (saved.called: the handler called it, saved.did: the write
\* took place, saved.cmds: the catalog written)
Handled(model, kind, command) ==
    [m |-> model, cmd |-> kind, command |-> command, heap |-> heap,
     saved |-> [called |-> FALSE, did |-> FALSE, cmds |-> <<>>]]
NoCmd(model) == Handled(model, "none", NoCommand)
\* the same for a handler that allocated: a is a model with its heap
NoCmdIn(a) == [NoCmd(a.m) EXCEPT !.heap = a.heap]

\* visibleLines and maxScroll as handleExecutionKeyPress computes them
VisibleLines(model) == IF model.Height - 10 < 5 THEN 5 ELSE model.Height - 10

MaxScrollOf(model) ==
    LET d == LineCount(model.ExecutionOutput) - VisibleLines(model)
    IN  IF d < 0 THEN 0 ELSE d

PageSize(model) == IF VisibleLines(model) - 2 < 1 THEN 1 ELSE VisibleLines(model) - 2

\* an exit that differs from the code: the executing command stays set
ExitExecutionViewKeepingCommand(model) ==
    [model EXCEPT !.Executing = FALSE, !.OutputScrollPosition = 0]

\* the exit-view case of handleExecutionKeyPress
ExitExecutionView(model) ==
    [model EXCEPT !.Executing = FALSE, !.ExecutingCommand = <<>>,
                  !.OutputScrollPosition = 0]

\* a handler that differs from the code: page down does not stop at maxScroll
handleExecutionKeyPressUnclamped(key, model) ==
    IF key = "pgdown"
    THEN NoCmd([model EXCEPT !.OutputScrollPosition = @ + PageSize(model)])
    ELSE NoCmd(model)

handleExecutionKeyPress(key, model) ==
    LET pos == model.OutputScrollPosition
        maxScroll == MaxScrollOf(model)
    IN  CASE key \in {"esc", "q", "enter"} -> NoCmd(ExitExecutionView(model))
          [] key \in {"up", "k"} ->
                NoCmd([model EXCEPT !.OutputScrollPosition = IF pos > 0 THEN pos - 1 ELSE pos])
          [] key \in {"down", "j"} ->
                NoCmd([model EXCEPT !.OutputScrollPosition =
                                        IF pos < maxScroll THEN pos + 1 ELSE pos])
          [] key = "pgup" ->
                NoCmd([model EXCEPT !.OutputScrollPosition =
                                        IF pos - PageSize(model) < 0 THEN 0
                                        ELSE pos - PageSize(model)])
          [] key = "pgdown" ->
                NoCmd([model EXCEPT !.OutputScrollPosition =
                                        IF pos + PageSize(model) > maxScroll THEN maxScroll
                                        ELSE pos + PageSize(model)])
          [] key = "home" -> NoCmd([model EXCEPT !.OutputScrollPosition = 0])
          [] key = "end" -> NoCmd([model EXCEPT !.OutputScrollPosition = maxScroll])
          [] OTHER -> NoCmd(model)

handleHelpKeyPress(key, model) ==
    IF key \in {"esc", "h"} THEN NoCmd([model EXCEPT !.ShowHelp = FALSE])
    ELSE NoCmd(model)

(***************************************************************************)
(* Backing arrays: allocation by append() and by slice literals.           *)
(***************************************************************************)
\* the first free array number of h
FreeSlot(h) ==
    CHOOSE i \in 1..(Len(h) + 1) :
        /\ i = Len(h) + 1 \/ h[i] = <<>>
        /\ \A j \in 1..(i - 1) : h[j] # <<>>

AllocAt(h, i, elems) ==
    [heap |-> IF i = Len(h) + 1 THEN Append(h, elems) ELSE [h EXCEPT ![i] = elems],
     slice |-> SliceOf(i, Len(elems))]

\* a slice built by appending elems to a nil slice: nil when nothing is appended
Alloc(h, elems) ==
    IF elems = <<>> THEN [heap |-> h, slice |-> SliceOf(0, 0)]
    ELSE AllocAt(h, FreeSlot(h), elems)

\* append(s, c): in place when the capacity allows it, else into a new array
AppendTo(h, s, c, inPlace) ==
    IF s.arr # 0 /\ inPlace
    THEN [heap |-> [h EXCEPT ![s.arr] = IF Len(@) > s.len THEN [@ EXCEPT ![s.len + 1] = c]
                                        ELSE Append(@, c)],
          slice |-> SliceOf(s.arr, s.len + 1)]
    ELSE Alloc(h, Append(ElemsIn(h, s), c))

(***************************************************************************)
(* The list view, the filter and the form.                                 *)
(***************************************************************************)
\* the entry passes the category filter and the text filter
Matches(model, command) ==
    /\ (model.ActiveCategory # <<>> /\ model.ActiveCategory # All)
          => command.Category = model.ActiveCategory
    /\ model.FilterText # <<>> =>
          \/ ContainsStr(ToLower(command.Name), ToLower(model.FilterText))
          \/ ContainsStr(ToLower(command.Command), ToLower(model.FilterText))
          \/ ContainsStr(ToLower(command.Description), ToLower(model.FilterText))
          \/ \E i \in 1..Len(command.Tags) :
                ContainsStr(ToLower(command.Tags[i]), ToLower(model.FilterText))

filterCommands(model, h) ==
    SelectSeq(ElemsIn(h, model.AllCommands), LAMBDA c : Matches(model, c))

\* m.VisibleCommands = filterCommands(m): a model with its heap
Refilter(model, h) ==
    LET a == Alloc(h, filterCommands(model, h))
    IN  [m |-> [model EXCEPT !.VisibleCommands = a.slice], heap |-> a.heap]

\* the buffer of the filter prompt changed: the filter is applied as it is typed
FilterTyped(model, buf) ==
    NoCmdIn(Refilter([model EXCEPT !.InputBuffer = buf, !.FilterText = buf], heap))

\* key names of one character, and the character a key appends to a buffer
OneChar == {"a", "b", "c", "d", "e", "f", "h", "j", "k", "n", "q", "y", ",", " "}
IsTextKey(key) == key \in OneChar \/ key = "space"
TextOf(key) == IF key = "space" THEN " " ELSE key

DropLast(t) == SubSeq(t, 1, Len(t) - 1)

\* enter in the filter prompt: the filter is applied and the prompt is left
ApplyFilter(a) ==
    NoCmdIn([a EXCEPT !.m = [@ EXCEPT !.CurrentMode = ModeNormal, !.InputBuffer = <<>>]])

handleFilterInputMode(key, model) ==
    CASE key = "esc" -> NoCmd([model EXCEPT !.CurrentMode = ModeNormal])
      [] key = "enter" ->
            ApplyFilter(Refilter([model EXCEPT !.FilterText = model.InputBuffer], heap))
      [] key = "backspace" ->
            IF Len(model.InputBuffer) > 0
            THEN FilterTyped(model, DropLast(model.InputBuffer))
            ELSE NoCmd(model)
      [] key = "ctrl+u" -> FilterTyped(model, <<>>)
      [] OTHER ->
            IF IsTextKey(key) THEN FilterTyped(model, Append(model.InputBuffer, TextOf(key)))
            ELSE NoCmd(model)

\* the tags joined with ", "
RECURSIVE JoinTags(_)
JoinTags(tags) ==
    IF tags = <<>> THEN <<>>
    ELSE IF Len(tags) = 1 THEN tags[1]
    ELSE JoinTags(DropLast(tags)) \o <<",", " ">> \o tags[Len(tags)]

\* strings.Split(value, ","), each part trimmed, the empty parts dropped
RECURSIVE SplitTags(_, _, _)
SplitTags(value, cur, acc) ==
    IF value = <<>>
    THEN IF TrimSpace(cur) = <<>> THEN acc ELSE Append(acc, TrimSpace(cur))
    ELSE IF Head(value) = ","
         THEN SplitTags(Tail(value), <<>>,
                        IF TrimSpace(cur) = <<>> THEN acc ELSE Append(acc, TrimSpace(cur)))
         ELSE SplitTags(Tail(value), Append(cur, Head(value)), acc)

GetFormFieldValue(model, field) ==
    CASE field = FieldName -> model.FormCommand.Name
      [] field = FieldCommand -> model.FormCommand.Command
      [] field = FieldCategory -> model.FormCommand.Category
      [] field = FieldDescription -> model.FormCommand.Description
      [] field = FieldTags -> JoinTags(model.FormCommand.Tags)
      [] OTHER -> <<>>

SetFormFieldValue(model, field, value) ==
    CASE field = FieldName -> [model EXCEPT !.FormCommand.Name = value]
      [] field = FieldCommand -> [model EXCEPT !.FormCommand.Command = value]
      [] field = FieldCategory -> [model EXCEPT !.FormCommand.Category = value]
      [] field = FieldDescription -> [model EXCEPT !.FormCommand.Description = value]
      [] field = FieldTags -> [model EXCEPT !.FormCommand.Tags = SplitTags(value, <<>>, <<>>)]
      [] OTHER -> model

NextField(f) == (f + 1) % FieldCount
PrevField(f) == IF f = 0 THEN FieldCount - 1 ELSE f - 1

\* the buffer is stored into the active field and editing ends on field f
CommitField(model, f) ==
    [SetFormFieldValue(model, model.ActiveFormField, model.FormInputBuffer)
        EXCEPT !.EditingFormField = FALSE, !.FormInputBuffer = <<>>, !.ActiveFormField = f]

handleFormFieldEdit(key, model) ==
    CASE key = "esc" ->
            NoCmd([model EXCEPT !.EditingFormField = FALSE, !.FormInputBuffer = <<>>])
      [] key = "enter" ->
            NoCmd(CommitField(model, IF model.ActiveFormField < FieldCount - 1
                                     THEN model.ActiveFormField + 1
                                     ELSE model.ActiveFormField))
      [] key = "backspace" ->
            NoCmd([model EXCEPT !.FormInputBuffer = IF Len(@) > 0 THEN DropLast(@) ELSE @])
      [] key \in {"ctrl+u", "ctrl+a"} -> NoCmd([model EXCEPT !.FormInputBuffer = <<>>])
      [] key = "ctrl+e" -> NoCmd(model)
      [] key = "tab" -> NoCmd(CommitField(model, NextField(model.ActiveFormField)))
      [] key = "shift+tab" -> NoCmd(CommitField(model, PrevField(model.ActiveFormField)))
      [] key \in {"up", "down", "left", "right"} -> NoCmd(model)
      [] OTHER ->
            IF IsTextKey(key)
            THEN NoCmd([model EXCEPT !.FormInputBuffer = Append(@, TextOf(key))])
            ELSE NoCmd(model)

\* a new entry gets its identifier from the clock, and the default category and tag
Identified(fc) ==
    IF fc.ID # "" THEN fc
    ELSE [fc EXCEPT !.ID = ToString(now),
                    !.Category = IF @ = <<>> THEN System ELSE @,
                    !.Tags = IF Len(@) = 0
                             THEN <<ToLower(IF fc.Category = <<>> THEN System ELSE fc.Category)>>
                             ELSE @]

\* index of the first entry of array a (first n entries) with identifier id, or 0
RECURSIVE IndexOfID(_, _, _)
IndexOfID(a, n, id) ==
    IF n = 0 THEN 0
    ELSE IF IndexOfID(a, n - 1, id) # 0 THEN IndexOfID(a, n - 1, id)
    ELSE IF a[n].ID = id THEN n ELSE 0

\* a store that differs from the code: the entry is appended even when an entry
\* has its identifier
PutEntryAppending(model, k, io) ==
    AppendTo(heap, model.AllCommands, model.FormCommand, io.inPlace)

\* m.AllCommands[k] = m.FormCommand, or the append when no entry has the identifier
PutEntry(model, k, io) ==
    IF k # 0
    THEN [heap |-> [heap EXCEPT ![model.AllCommands.arr][k] = model.FormCommand],
          slice |-> model.AllCommands]
    ELSE AppendTo(heap, model.AllCommands, model.FormCommand, io.inPlace)

\* m.AllCommands = a.slice; the categories are recomputed and the list is
\* filtered again
Recategorized(model, a) ==
    Refilter([model EXCEPT !.AllCommands = a.slice,
                           !.Categories = GetCategories(ElemsIn(a.heap, a.slice))],
             a.heap)

\* an end of saveFormCommand that differs from the code: the error of
\* config.SaveConfig is dropped
SaveFormSilently(a, io) ==
    [NoCmdIn([a EXCEPT !.m.ShowForm = FALSE])
        EXCEPT !.saved = [called |-> TRUE, did |-> io.saveOk,
                          cmds |-> ElemsIn(a.heap, a.m.AllCommands)]]

\* config.SaveConfig(m.AllCommands) at the end of saveFormCommand
SaveForm(a, io) ==
    IF io.saveOk
    THEN [NoCmdIn([a EXCEPT !.m.ShowForm = FALSE])
             EXCEPT !.saved = [called |-> TRUE, did |-> TRUE,
                               cmds |-> ElemsIn(a.heap, a.m.AllCommands)]]
    ELSE [NoCmdIn([a EXCEPT !.m.Error = ErrorText("Failed to save config", 0)])
             EXCEPT !.saved.called = TRUE]

StoreEntry(model, io) ==
    SaveForm(Recategorized(model,
                 PutEntry(model,
                          IndexOfID(ElemsIn(heap, model.AllCommands), model.AllCommands.len,
                                    model.FormCommand.ID),
                          io)),
             io)

\* a saveFormCommand that differs from the code: nothing is validated
saveFormCommandUnvalidated(model, io) ==
    StoreEntry([model EXCEPT !.FormCommand = Identified(@)], io)

saveFormCommand(model, io) ==
    IF model.FormCommand.Name = <<>> \/ model.FormCommand.Command = <<>>
    THEN NoCmd([model EXCEPT !.Error = ErrorText("Name and Command are required fields", 0)])
    ELSE StoreEntry([model EXCEPT !.FormCommand = Identified(@)], io)

handleFormKeyPress(key, model, io) ==
    IF model.EditingFormField THEN handleFormFieldEdit(key, model)
    ELSE CASE key = "esc" -> NoCmd([model EXCEPT !.ShowForm = FALSE])
           [] key = "enter" ->
                 NoCmd([model EXCEPT !.EditingFormField = TRUE,
                                     !.FormInputBuffer =
                                         GetFormFieldValue(model, model.ActiveFormField)])
           [] key = "y" -> saveFormCommand(model, io)
           [] key \in {"up", "k"} ->
                 NoCmd([model EXCEPT !.ActiveFormField = IF @ > 0 THEN @ - 1 ELSE @])
           [] key \in {"down", "j"} ->
                 NoCmd([model EXCEPT !.ActiveFormField = IF @ < FieldCount - 1 THEN @ + 1 ELSE @])
           [] key = "tab" -> NoCmd([model EXCEPT !.ActiveFormField = NextField(@)])
           [] key = "shift+tab" -> NoCmd([model EXCEPT !.ActiveFormField = PrevField(@)])
           [] OTHER -> NoCmd(model)

\* the selected entry exists
HasSelection(model) ==
    model.VisibleCommands.len > 0 /\ model.SelectedIndex < model.VisibleCommands.len

Selected(model) == Elems(model.VisibleCommands)[model.SelectedIndex + 1]

\* the adjustment of the selected index after a delete
ClampSelection(a) ==
    [a EXCEPT !.m.SelectedIndex =
        IF @ >= a.m.VisibleCommands.len
        THEN (IF a.m.VisibleCommands.len - 1 < 0 THEN 0 ELSE a.m.VisibleCommands.len - 1)
        ELSE IF @ < 0 THEN 0 ELSE @]

\* an end of the delete that differs from the code: the catalog is not saved
SaveDeleteSkipped(a, io) == NoCmdIn(a)

\* config.SaveConfig(m.AllCommands) at the end of the delete
SaveDelete(a, io) ==
    IF io.saveOk
    THEN [NoCmdIn(a) EXCEPT !.saved = [called |-> TRUE, did |-> TRUE,
                                       cmds |-> ElemsIn(a.heap, a.m.AllCommands)]]
    ELSE [NoCmdIn([a EXCEPT !.m.Error = ErrorText("Failed to save config", 0)])
             EXCEPT !.saved.called = TRUE]

\* m.AllCommands = the entries with another identifier, in a new slice
Without(model, id) ==
    LET a == Alloc(heap, SelectSeq(Elems(model.AllCommands), LAMBDA c : c.ID # id))
    IN  Refilter([model EXCEPT !.AllCommands = a.slice], a.heap)

DeleteEntry(model, id, io) == SaveDelete(ClampSelection(Without(model, id)), io)

\* position of the active category in m.Categories, or 0
RECURSIVE IndexOfCategory(_, _, _)
IndexOfCategory(cats, n, c) ==
    IF n = 0 THEN 0
    ELSE IF IndexOfCategory(cats, n - 1, c) # 0 THEN IndexOfCategory(cats, n - 1, c)
    ELSE IF cats[n] = c THEN n ELSE 0

NextCategory(model, i) ==
    IF i # 0
    THEN (IF i < Len(model.Categories) THEN model.Categories[i + 1] ELSE model.Categories[1])
    ELSE IF Len(model.Categories) > 0 THEN model.Categories[1]
    ELSE model.ActiveCategory

handleMainKeyPress(key, model, io) ==
    CASE key \in {"up", "k"} ->
            NoCmd([model EXCEPT !.SelectedIndex = IF @ > 0 THEN @ - 1 ELSE @])
      [] key \in {"down", "j"} ->
            NoCmd([model EXCEPT !.SelectedIndex =
                                    IF @ < model.VisibleCommands.len - 1 THEN @ + 1 ELSE @])
      [] key = "enter" ->
            IF HasSelection(model) THEN Handled(model, "exec", Selected(model))
            ELSE NoCmd(model)
      [] key = "n" ->
            NoCmd([model EXCEPT !.ShowForm = TRUE,
                                !.FormCommand = [NoCommand EXCEPT !.Category = System]])
      [] key = "e" ->
            IF HasSelection(model)
            THEN NoCmd([model EXCEPT !.ShowForm = TRUE, !.FormCommand = Selected(model)])
            ELSE NoCmd(model)
      [] key = "d" ->
            IF HasSelection(model) THEN DeleteEntry(model, Selected(model).ID, io)
            ELSE NoCmd(model)
      [] key = "c" ->
            NoCmdIn(Refilter(
                [model EXCEPT !.ActiveCategory =
                    NextCategory(model, IndexOfCategory(model.Categories, Len(model.Categories),
                                                        model.ActiveCategory))],
                heap))
      [] key = "b" -> NoCmd([model EXCEPT !.RunInBackground = ~@])
      [] key = "f" ->
            NoCmd([model EXCEPT !.CurrentMode = ModeFilterInput,
                                !.InputBuffer = model.FilterText])
      [] OTHER -> NoCmd(model)

\* the global keys of handleKeyPress, tried before the view's own handler
IsQuitKey(key) == key \in {"ctrl+c", "q"}

\* handleKeyPress after the error message has been cleared
KeyDispatch(key, model, io) ==
    IF model.CurrentMode = ModeFilterInput THEN handleFilterInputMode(key, model)
    ELSE IF model.ShowForm /\ model.EditingFormField THEN handleFormFieldEdit(key, model)
    ELSE IF IsQuitKey(key) THEN Handled(model, "quit", NoCommand)
    ELSE IF key = "h" /\ ~model.ShowForm
         THEN NoCmd([model EXCEPT !.ShowHelp = ~@])
    ELSE IF model.Executing THEN handleExecutionKeyPress(key, model)
    ELSE IF model.ShowHelp THEN handleHelpKeyPress(key, model)
    ELSE IF model.ShowForm THEN handleFormKeyPress(key, model, io)
    ELSE handleMainKeyPress(key, model, io)

handleKeyPress(key, model, io) == KeyDispatch(key, [model EXCEPT !.Error = NoError], io)

\* outcomes of the storage collaborator and of append() for the keys that use them
IoOutcomes(key) ==
    IF key \in {"d", "y"} THEN [saveOk : BOOLEAN, inPlace : BOOLEAN]
    ELSE {[saveOk |-> TRUE, inPlace |-> FALSE]}

\* keys of the list view and the exit-view keys
Keys == {"enter", "esc", "q", "ctrl+c", "up", "down", "b"}

\* the arrays still referenced by the model or by the closure of a run task
Live(model) ==
    ({model.AllCommands.arr, model.VisibleCommands.arr}
        \cup {tasks[i].snap.arr : i \in 1..Len(tasks)}) \ {0}

\* the arrays no slice refers to any more are released
Sweep(h, live) ==
    [i \in 1..(CHOOSE n \in live \cup {0} : \A k \in live : k <= n) |->
        IF i \in live THEN h[i] ELSE <<>>]

\* what Update does with the model and the tea.Cmd a key handler returned
Dispatch(r) ==
    /\ r.cmd = "exec" => nExec < MaxExec
    /\ m' = r.m
    /\ heap' = Sweep(r.heap, Live(r.m))
    /\ config' = IF r.saved.did THEN r.saved.cmds ELSE config
    /\ quit' = (r.cmd = "quit")
    /\ execMsgs' = IF r.cmd = "exec" THEN execMsgs (+) SetToBag({r.command}) ELSE execMsgs
    /\ nExec' = IF r.cmd = "exec" THEN nExec + 1 ELSE nExec
    /\ saveCalls' = IF r.saved.called THEN saveCalls + 1 ELSE saveCalls

\* the child of the session's run is killed when the execution view is left
KillOnLeave(r) ==
    tasks' = [i \in 1..Len(tasks) |->
                 IF /\ m.Executing /\ ~r.m.Executing
                    /\ i = m.ExecutionLogPath /\ tasks[i].pc = "running"
                 THEN [tasks[i] EXCEPT !.pc = "returned",
                                       !.res = [@ EXCEPT !.Error = "killed", !.ExitCode = -1]]
                 ELSE tasks[i]]

\* a KeyPress that differs from the code: leaving the execution view kills the child of the session
KeyPressKillingChild(key) ==
    /\ ~quit
    /\ blocked = <<>>
    /\ \E io \in IoOutcomes(key) :
          /\ Dispatch(handleKeyPress(key, m, io))
          /\ KillOnLeave(handleKeyPress(key, m, io))
    /\ UNCHANGED <<polls, files, terminals, darwin, now, call, blocked>>

\* Update on a tea.KeyMsg
KeyPress(key) ==
    /\ ~quit
    /\ blocked = <<>>
    /\ \E io \in IoOutcomes(key) : Dispatch(handleKeyPress(key, m, io))
    /\ UNCHANGED <<polls, tasks, files, terminals, darwin, now, call, blocked>>

\* Update on a tea.WindowSizeMsg (the width is not read by any handler)
WindowSize(h) ==
    /\ ~quit
    /\ blocked = <<>>
    /\ m' = [m EXCEPT !.Height = h]
    /\ UNCHANGED <<execMsgs, polls, quit, nExec, taskVars, terminals, darwin, now, call,
                   blocked, saveCalls>>

(***************************************************************************)
(* executeCommand: Update on an ExecuteCommandMsg.                         *)
(***************************************************************************)
\* a run task: kind "fg" is the runCmd closure of a foreground streaming run,
\* kind "bg" the goroutine of a detached run.  snap is the AllCommands slice
\* of the model the closure captured.
\*   pc: "spawned"  the task is scheduled, nothing has run yet
\*       "running"  cmd.Run() has started the child and waits for it
\*       "returned" ExecuteCommandStreaming has returned res
\*       "sent"     the CommandResultMsg is on its way to Update
\*       "handled"  Update has handled the CommandResultMsg
\*       "finished" the detached goroutine has ended
Task(kind, command, snap) ==
    [kind |-> kind, cmd |-> command, snap |-> snap, pc |-> "spawned",
     res |-> NoResult, writes |-> 0]

\* the first assignments of executeCommand
MarkExecuting(model, command) ==
    [model EXCEPT !.Executing = TRUE, !.ExecutingCommand = <<command>>,
                  !.ExecutionOutput = ExecutingOutput, !.OutputScrollPosition = 0,
                  !.Error = NoError]

\* the assignments shared by the branches that leave the execution view at once
BackToList(model, err) ==
    [model EXCEPT !.Error = err, !.Executing = FALSE, !.ExecutingCommand = <<>>,
                  !.ExecutionOutput = EmptyOutput]

\* a selection that differs from the code: the Interactive test comes before the background flag
SelectStrategyInteractiveFirst(model, command) ==
    IF command.Interactive /\ darwin THEN "terminal"
    ELSE IF model.RunInBackground THEN "detached"
    ELSE "streaming"

\* which branch executeCommand takes
SelectStrategy(model, command) ==
    IF model.RunInBackground THEN "detached"
    ELSE IF command.Interactive /\ darwin THEN "terminal"
    ELSE "streaming"

\* openInTerminal: the directory the script changes to (empty: none).  An error
\* of resolveWorkingDir is dropped and the command is run without a cd.
TerminalDir(command) ==
    LET r == resolveWorkingDir(command, DefaultEnv)
    IN  IF r.ok /\ r.dir # <<>> THEN r.dir ELSE <<>>

openInTerminal(command) == [command |-> command, cd |-> TerminalDir(command)]

\* background branch: createBackgroundLogFile, then the goroutine
ExecuteDetached(command) ==
    LET m1 == MarkExecuting(m, command)
    IN  \/ /\ m' = BackToList(m1, ErrorText("Failed to create background log", 0))
           /\ UNCHANGED <<tasks, files>>
        \/ /\ tasks' = Append(tasks, Task("bg", command, m1.AllCommands))
           /\ files' = Append(files, <<>>)
           /\ m' = BackToList(m1, ErrorText("Background task started. Log", Len(tasks) + 1))

\* Interactive on macOS: openInTerminal has returned, with Terminal told to run
\* the command or with the error of osascript, which is dropped
ExecuteInTerminal(command) ==
    LET m1 == MarkExecuting(m, command)
    IN  /\ m' = BackToList(m1, NoError)
        /\ \/ terminals' = terminals \cup {openInTerminal(command)}
           \/ terminals' = terminals

\* a foreground branch that differs from the code: Update itself starts the
\* child before it returns
ExecuteStreamingInUpdate(command) ==
    LET m1 == MarkExecuting(m, command)
    IN  /\ tasks' = Append(tasks, [Task("fg", command, m1.AllCommands)
                                      EXCEPT !.pc = "running"])
        /\ files' = Append(files, <<>>)
        /\ m' = [m1 EXCEPT !.ExecutionLogPath = Len(tasks) + 1,
                           !.ExecutionLogOffset = 0]
        /\ polls' = polls + 1

\* foreground branch: os.CreateTemp, then tea.Batch(runCmd, poll)
ExecuteStreaming(command) ==
    LET m1 == MarkExecuting(m, command)
    IN  \/ /\ m' = [m1 EXCEPT !.Error = ErrorText("Failed to create temp log", 0),
                              !.Executing = FALSE, !.ExecutingCommand = <<>>]
           /\ UNCHANGED <<tasks, files, polls>>
        \/ /\ tasks' = Append(tasks, Task("fg", command, m1.AllCommands))
           /\ files' = Append(files, <<>>)
           /\ m' = [m1 EXCEPT !.ExecutionLogPath = Len(tasks) + 1,
                              !.ExecutionLogOffset = 0]
           /\ polls' = polls + 1

\* Update on an ExecuteCommandMsg for an Interactive command on macOS gets as
\* far as execCmd.Run() in openInTerminal: osascript is started, and Update
\* waits for it to exit before it goes on
StartOsascript(command) ==
    /\ ~quit
    /\ blocked = <<>>
    /\ BagIn(command, execMsgs)
    /\ SelectStrategy(m, command) = "terminal"
    /\ blocked' = <<command>>
    /\ UNCHANGED <<loopVars, taskVars, terminals, darwin, now, call, saveCalls>>

\* Update on an ExecuteCommandMsg, up to its return (on the Terminal path: from
\* the exit of osascript on)
executeCommand(command) ==
    /\ ~quit
    /\ BagIn(command, execMsgs)
    /\ blocked = IF SelectStrategy(m, command) = "terminal" THEN <<command>> ELSE <<>>
    /\ blocked' = <<>>
    /\ execMsgs' = execMsgs (-) SetToBag({command})
    /\ LET s == SelectStrategy(m, command)
       IN  CASE s = "detached" ->
                    ExecuteDetached(command) /\ UNCHANGED <<polls, terminals>>
             [] s = "terminal" ->
                    ExecuteInTerminal(command) /\ UNCHANGED <<polls, tasks, files>>
             [] s = "streaming" ->
                    ExecuteStreaming(command) /\ UNCHANGED terminals
    /\ UNCHANGED <<heap, config, darwin, now, quit, nExec, call, saveCalls>>

(***************************************************************************)
(* The run task, the detached task and their child processes.              *)
(***************************************************************************)
SetTask(i, t) == [tasks EXCEPT ![i] = t]

\* a detached goroutine that differs from the code: it goes on as runCmd does
AfterReturnTracked(t) == "returned"

\* where a task goes when ExecuteCommandStreaming has returned
AfterReturn(t) == IF t.kind = "fg" THEN "returned" ELSE "finished"

\* the task opens its sink and calls ExecuteCommandStreaming up to cmd.Run()
StartWith(i, t, prep) ==
    \/ \* os.OpenFile fails: runCmd returns its own message, the goroutine ends
       tasks' = SetTask(i, [t EXCEPT !.pc = IF t.kind = "fg" THEN "sent" ELSE "finished",
                                     !.res = Result(t.cmd, <<>>, "open", -1)])
    \/ /\ prep.err # ""
       /\ tasks' = SetTask(i, [t EXCEPT !.pc = AfterReturn(t),
                                        !.res = Result(t.cmd, <<>>, prep.err, -1)])
    \/ /\ prep.err = ""
       /\ \/ tasks' = SetTask(i, [t EXCEPT !.pc = AfterReturn(t),
                                           !.res = Result(t.cmd, <<>>, "start", -1)])
          \/ tasks' = SetTask(i, [t EXCEPT !.pc = "running"])

TaskStart(i) ==
    /\ ~quit
    /\ i \in 1..Len(tasks)
    /\ tasks[i].pc = "spawned"
    /\ StartWith(i, tasks[i], PrepareStreaming(tasks[i].cmd, DefaultEnv))
    /\ UNCHANGED <<loopVars, files, heap, config, terminals, darwin, now, call, blocked, saveCalls>>

\* the child writes a chunk of output to its sink, at most n times
ChildWriteUpTo(i, chunk, n) ==
    /\ ~quit
    /\ i \in 1..Len(tasks)
    /\ tasks[i].pc = "running"
    /\ tasks[i].writes < n
    /\ files' = [files EXCEPT ![i] = files[i] \o chunk]
    /\ tasks' = SetTask(i, [tasks[i] EXCEPT !.writes = tasks[i].writes + 1])
    /\ UNCHANGED <<loopVars, heap, config, terminals, darwin, now, call, blocked, saveCalls>>

ChildWrite(i, chunk) == ChildWriteUpTo(i, chunk, MaxWrites)

\* the child exits by itself; cmd.Run() returns and the exit code is derived
ChildExit(i, code) ==
    /\ ~quit
    /\ i \in 1..Len(tasks)
    /\ tasks[i].pc = "running"
    /\ LET t == tasks[i]
           proc == [starts |-> TRUE, code |-> code, stdout |-> <<>>, stderr |-> <<>>]
       IN  tasks' = SetTask(i, [t EXCEPT
                        !.pc = AfterReturn(t),
                        !.res = Result(t.cmd, <<>>, RunError(proc), ExitCodeOf(proc))])
    /\ UNCHANGED <<loopVars, files, heap, config, terminals, darwin, now, call, blocked, saveCalls>>

\* rest of runCmd: the last-run time is written into the captured catalog, the
\* catalog is saved (the error of SaveConfig is dropped) and the message returned
TaskFinish(i) ==
    /\ ~quit
    /\ i \in 1..Len(tasks)
    /\ tasks[i].pc = "returned"
    /\ LET t == tasks[i]
           k == IndexOfID(ElemsIn(heap, t.snap), t.snap.len, t.cmd.ID)
       IN  /\ heap' = IF k = 0 THEN heap ELSE [heap EXCEPT ![t.snap.arr][k].LastRun = now]
           /\ \/ config' = ElemsIn(heap', t.snap)
              \/ config' = config
    /\ saveCalls' = saveCalls + 1
    /\ tasks' = SetTask(i, [tasks[i] EXCEPT !.pc = "sent"])
    /\ UNCHANGED <<loopVars, files, terminals, darwin, now, call, blocked>>

(***************************************************************************)
(* Update on a CommandResultMsg and on a StreamPollMsg.                    *)
(***************************************************************************)
\* a finalization that differs from the code: the sink is read from the last
\* recorded offset on, not from its beginning
handleCommandResultFromOffset(result, model) ==
    LET folded == IF model.ExecutionLogPath # 0
                  THEN [result EXCEPT !.Output =
                           SubSeq(files[model.ExecutionLogPath],
                                  model.ExecutionLogOffset + 1,
                                  Len(files[model.ExecutionLogPath]))]
                  ELSE result
    IN  [model EXCEPT !.ExecutionOutput = FormatOutput(folded),
                      !.Executing = FALSE,
                      !.ExecutingCommand = <<>>,
                      !.ExecutionLogPath = 0,
                      !.ExecutionLogOffset = 0]

\* a finalization that differs from the code: the report is shown and the
\* session is left as it is
handleCommandResultLeavingSession(result, model) ==
    LET folded == IF model.ExecutionLogPath # 0
                  THEN [result EXCEPT !.Output = files[model.ExecutionLogPath]]
                  ELSE result
    IN  [model EXCEPT !.ExecutionOutput = FormatOutput(folded)]

handleCommandResult(result, model) ==
    LET folded == IF model.ExecutionLogPath # 0
                  THEN [result EXCEPT !.Output = files[model.ExecutionLogPath]]
                  ELSE result
    IN  [model EXCEPT !.ExecutionOutput = FormatOutput(folded),
                      !.Executing = FALSE,
                      !.ExecutingCommand = <<>>,
                      !.ExecutionLogPath = 0,
                      !.ExecutionLogOffset = 0]

CommandResult(i) ==
    /\ ~quit
    /\ blocked = <<>>
    /\ i \in 1..Len(tasks)
    /\ tasks[i].pc = "sent"
    /\ m' = handleCommandResult(tasks[i].res, m)
    /\ tasks' = SetTask(i, [tasks[i] EXCEPT !.pc = "handled"])
    /\ UNCHANGED <<execMsgs, polls, quit, nExec, files, heap, config, terminals,
                   darwin, now, call, blocked, saveCalls>>

\* the bytes f.Read returns from the offset (the buffer is larger than any sink here)
ReadFrom(content, offset) ==
    IF offset >= Len(content) THEN <<>> ELSE SubSeq(content, offset + 1, Len(content))

\* a poll read that differs from the code: the file is read from its beginning,
\* without the Seek to the last offset
handleStreamPollFromStart(model) ==
    LET new == ReadFrom(files[model.ExecutionLogPath], 0)
    IN  [model EXCEPT !.ExecutionOutput.tail = @ \o new,
                      !.ExecutionLogOffset = @ + Len(new)]

handleStreamPoll(model) ==
    LET new == ReadFrom(files[model.ExecutionLogPath], model.ExecutionLogOffset)
    IN  [model EXCEPT !.ExecutionOutput.tail = @ \o new,
                      !.ExecutionLogOffset = @ + Len(new)]

\* a timer handler that differs from the code: a tick that arrives outside a
\* streaming session schedules the next tick too
StreamPollAlways ==
    /\ ~quit
    /\ blocked = <<>>
    /\ polls > 0
    /\ IF ~m.Executing \/ m.ExecutionLogPath = 0
       THEN m' = m /\ polls' = polls
       ELSE /\ \/ m' = m
               \/ m' = handleStreamPoll(m)
            /\ polls' = polls
    /\ UNCHANGED <<execMsgs, quit, nExec, taskVars, terminals, darwin, now, call,
                   blocked, saveCalls>>

StreamPoll ==
    /\ ~quit
    /\ blocked = <<>>
    /\ polls > 0
    /\ IF ~m.Executing \/ m.ExecutionLogPath = 0
       THEN m' = m /\ polls' = polls - 1
       ELSE /\ \/ m' = m                       \* os.Open fails
               \/ m' = handleStreamPoll(m)
            /\ polls' = polls
    /\ UNCHANGED <<execMsgs, quit, nExec, taskVars, terminals, darwin, now, call,
                   blocked, saveCalls>>

Next ==
    \/ \E key \in Keys : KeyPress(key)
    \/ \E c \in BagToSet(execMsgs) : StartOsascript(c)
    \/ \E c \in BagToSet(execMsgs) : executeCommand(c)
    \/ \E i \in 1..MaxExec : TaskStart(i)
    \/ \E i \in 1..MaxExec, chunk \in Chunks : ChildWrite(i, chunk)
    \/ \E i \in 1..MaxExec, code \in {0, 3} : ChildExit(i, code)
    \/ \E i \in 1..MaxExec : TaskFinish(i)
    \/ \E i \in 1..MaxExec : CommandResult(i)
    \/ StreamPoll

(***************************************************************************)
(* Direct calls of the strategy functions, on every command of the input   *)
(* sets below, in every environment and with every outcome of the child.   *)
(***************************************************************************)
\* working-directory policies tried: every mode without a path, the two
\* spellings of "absolute" with every path
WorkingDirs ==
    {<<mode, <<>>>> : mode \in WorkingDirModes}
        \cup {<<mode, path>> : mode \in {"absolute", "ABSOLUTE"}, path \in WorkingDirPaths}

Call(fn, command, env, proc) ==
    /\ call' = [fn |-> fn, command |-> command, env |-> env, proc |-> proc,
                out |-> RunStrategy(fn, command, env, proc)]
    /\ UNCHANGED <<loopVars, taskVars, terminals, darwin, now, blocked, saveCalls>>

NextExec ==
    /\ call = NoCall
    /\ \E fn \in Strategies, text \in Texts, useShell \in BOOLEAN, interactive \in BOOLEAN,
          wd \in WorkingDirs, env \in Envs, proc \in ProcOutcomes :
          Call(fn, Command("9", text, useShell, interactive, wd[1], wd[2]), env, proc)

InitExec == Init /\ ~m.RunInBackground /\ ~darwin

(***************************************************************************)
(* Direct calls of resolveWorkingDir, on every mode and path of the input  *)
(* sets, in every environment.                                             *)
(***************************************************************************)
\* the call returns (dir, err): dir and err of the recorded outcome
Resolve(command, env) ==
    /\ call' = [fn |-> "resolveWorkingDir", command |-> command, env |-> env,
                proc |-> NoCall.proc,
                out |-> Outcome(SetDir(resolveWorkingDir(command, env), FALSE, <<>>),
                                FALSE, resolveWorkingDir(command, env).err, 0, <<>>, FALSE)]
    /\ UNCHANGED <<loopVars, taskVars, terminals, darwin, now, blocked, saveCalls>>

NextResolve ==
    /\ call = NoCall
    /\ \E mode \in WorkingDirModes, path \in WorkingDirPaths, env \in ResolverEnvs :
          Resolve(Command("9", <<"a">>, FALSE, FALSE, mode, path), env)

SpecResolve == InitExec /\ [][NextResolve]_vars

(***************************************************************************)
(* Scrolling the execution view: the scroll keys on an output of every     *)
(* length up to MaxLines, in windows of several heights.                   *)
(***************************************************************************)
ScrollKeys == {"up", "k", "down", "j", "pgup", "pgdown", "home", "end"}

\* window heights: 0, 15 and 16 rows show 5, 5 and 6 lines, 24 rows show 14
ScrollHeights == {0, 15, 16, 24}

\* an output of total lines
RECURSIVE OutputOfLines(_)
OutputOfLines(total) ==
    IF total <= 1 THEN <<>> ELSE OutputOfLines(total - 1) \o <<"o", "\n">>

\* the execution view on a run that has written total lines so far, scrolled
\* to the top
ScrollModel(total, height) ==
    [MarkExecuting(NewModel(FALSE), Catalog[1])
        EXCEPT !.ExecutionOutput.tail = OutputOfLines(total), !.Height = height]

InitScroll ==
    /\ \E total \in 1..MaxLines, height \in ScrollHeights : m = ScrollModel(total, height)
    /\ heap = <<Catalog>>
    /\ config = Catalog
    /\ execMsgs = EmptyBag
    /\ polls = 0
    /\ tasks = <<>>
    /\ files = <<>>
    /\ terminals = {}
    /\ darwin = FALSE
    /\ now = Len(Catalog) + 1
    /\ quit = FALSE
    /\ nExec = 0
    /\ call = NoCall
    /\ blocked = <<>>
    /\ saveCalls = 0

NextScroll == \E key \in ScrollKeys : KeyPress(key)

SpecScroll == InitScroll /\ [][NextScroll]_vars

SpecExec == InitExec /\ [][NextExec]_vars

Spec == Init /\ [][Next]_vars

(***************************************************************************)
(* The catalog editor: entries are added and edited through the form and   *)
(* deleted from the list, while the clock advances.                        *)
(***************************************************************************)
\* keys of the list and the form; a is the one character typed into a field.
\* The selection stays on the first entry of the list: the entries after it
\* are reached by deleting the ones before them.
UIKeys == {"n", "e", "d", "y", "enter", "esc", "up", "a", "backspace"}

\* the keys pressed in each view: while a field is edited, text up to MaxBuf
\* characters, backspace, enter and esc; in the form, the fields Name and
\* Command are the ones filled in
InputAllowed(key) ==
    IF m.ShowForm /\ m.EditingFormField
    THEN /\ key \in {"a", "backspace", "enter", "esc"}
         /\ key = "a" => Len(m.FormInputBuffer) < MaxBuf
    ELSE /\ key \notin {"a", "backspace"}
         /\ key \in {"d", "y"} => saveCalls < MaxSaves
         /\ (key = "enter" /\ m.ShowForm) => m.ActiveFormField <= FieldCommand

\* a key of the editor; Enter is pressed in the form only
UIKeyPress(key) ==
    /\ InputAllowed(key)
    /\ key = "enter" => m.ShowForm
    /\ KeyPress(key)

\* a second passes: time.Now().Unix() is the next number
Tick ==
    /\ now < MaxNow
    /\ now' = now + 1
    /\ UNCHANGED <<loopVars, taskVars, terminals, darwin, call, blocked, saveCalls>>

\* the editor is started in foreground mode, not on macOS
InitUI == Init /\ ~m.RunInBackground /\ ~darwin

NextUI ==
    \/ \E key \in UIKeys : UIKeyPress(key)
    \/ Tick

SpecUI == InitUI /\ [][NextUI]_vars

(***************************************************************************)
(* The catalog under edits and runs: the first entry of the list is run as *)
(* a streaming run while entries are added, edited and deleted.            *)
(***************************************************************************)
\* a form is left by saving it, and a field is filled in once
CatalogKeys == UIKeys \ {"esc", "backspace"}

\* a key of the list, the form or the execution view; Enter in the list issues
\* an execute request, MaxRuns times
CatalogKeyPress(key) ==
    /\ InputAllowed(key)
    /\ (key = "enter" /\ ~m.ShowForm /\ ~m.Executing) => nExec < MaxRuns
    /\ KeyPress(key)

NextCatalog ==
    \/ \E key \in CatalogKeys : CatalogKeyPress(key)
    \/ Tick
    \/ \E c \in BagToSet(execMsgs) : executeCommand(c)
    \/ \E i \in 1..MaxRuns : TaskStart(i)
    \/ \E i \in 1..MaxRuns : ChildExit(i, 0)
    \/ \E i \in 1..MaxRuns : TaskFinish(i)
    \/ \E i \in 1..MaxRuns : CommandResult(i)

SpecCatalog == InitUI /\ [][NextCatalog]_vars

(***************************************************************************)
(* Streaming sessions: the first entry of the list is run in the           *)
(* foreground, its child writes its output in up to MaxFlushes flushes,    *)
(* and the timer polls the sink while the view is shown, left and entered  *)
(* again by a second run.                                                  *)
(***************************************************************************)
StreamKeys == {"enter", "esc"}

NextStream ==
    \/ \E key \in StreamKeys : KeyPress(key)
    \/ \E c \in BagToSet(execMsgs) : executeCommand(c)
    \/ \E i \in 1..MaxExec : TaskStart(i)
    \/ \E i \in 1..MaxExec, chunk \in Chunks : ChildWriteUpTo(i, chunk, MaxFlushes)
    \/ \E i \in 1..MaxExec, code \in {0, 3} : ChildExit(i, code)
    \/ \E i \in 1..MaxExec : TaskFinish(i)
    \/ \E i \in 1..MaxExec : CommandResult(i)
    \/ StreamPoll

SpecStream == InitUI /\ [][NextStream]_vars

(***************************************************************************)
(* The execution view while the output grows: the view is scrolled, the    *)
(* window is resized, the child writes blocks of lines that the timer      *)
(* appends to the output, and a second run is requested.                   *)
(***************************************************************************)
ViewKeys == {"enter", "esc", "end", "pgdown", "up"}

\* what one write of a child with a long output appends: LinesPerBlock lines
LinesPerBlock == 4

RECURSIVE Block(_)
Block(n) == IF n = 0 THEN <<>> ELSE <<"o", "\n">> \o Block(n - 1)

NextView ==
    \/ \E key \in ViewKeys : KeyPress(key)
    \/ \E h \in Heights : WindowSize(h)
    \/ \E c \in BagToSet(execMsgs) : executeCommand(c)
    \/ \E i \in 1..MaxExec : TaskStart(i)
    \/ \E i \in 1..MaxExec : ChildWriteUpTo(i, Block(LinesPerBlock), MaxFlushes)
    \/ \E i \in 1..MaxExec : ChildExit(i, 0)
    \/ \E i \in 1..MaxExec : TaskFinish(i)
    \/ \E i \in 1..MaxExec : CommandResult(i)
    \/ StreamPoll

SpecView == InitUI /\ [][NextView]_vars

(***************************************************************************)
(* The views of the application: the list is navigated, filtered by text   *)
(* and by category and entries are deleted, the filter prompt, the form    *)
(* and the help are opened and left, and an entry is run.                  *)
(***************************************************************************)
ModeKeys == {"up", "down", "c", "d", "f", "a", "enter", "esc", "h", "n"}

\* the keys pressed in each view: in the filter prompt the text key a (up to
\* MaxBuf characters), enter and esc; elsewhere no text is
\* typed, the fields of the form are not edited, a delete is saved MaxSaves
\* times and Enter in the list issues an execute request MaxRuns times
ModeKeyPress(key) ==
    /\ IF m.CurrentMode = ModeFilterInput
       THEN /\ key \in {"a", "enter", "esc"}
            /\ key = "a" => Len(m.InputBuffer) < MaxBuf
       ELSE /\ key # "a"
            /\ key = "d" => saveCalls < MaxSaves
            /\ key = "enter" => (~m.ShowForm /\ (~m.Executing => nExec < MaxRuns))
    /\ KeyPress(key)

NextModes ==
    \/ \E key \in ModeKeys : ModeKeyPress(key)
    \/ \E c \in BagToSet(execMsgs) : executeCommand(c)

SpecModes == InitUI /\ [][NextModes]_vars

(***************************************************************************)
(* The streaming runs under fair scheduling: the goroutine of a runCmd     *)
(* whose child has exited goes on to return its message, and the loop      *)
(* goes on to handle a message or a tick that is waiting for it.           *)
(***************************************************************************)
FairStream ==
    /\ \A i \in 1..MaxExec : WF_vars(TaskFinish(i)) /\ WF_vars(CommandResult(i))
    /\ WF_vars(StreamPoll)

SpecStreamFair == SpecStream /\ FairStream

(***************************************************************************)
(* Properties.                                                             *)
(***************************************************************************)
TaskIds == 1..Len(tasks)

\* the child of task i is alive
ChildAlive(i) == tasks[i].pc = "running"

ExitViewKeys == {"esc", "enter", "q"}

\* C1: at most one execution session is active: no execute request is handled
\* while the child of an earlier streaming run is still alive.
C1_OneActiveSession ==
    [][\A c \in BagToSet(execMsgs) :
          executeCommand(c) =>
              ~\E i \in TaskIds : tasks[i].kind = "fg" /\ ChildAlive(i)]_vars

\* C2: the completion event of run i finalizes run i's session: the session
\* that is current when it is handled is the one of sink i, and the output
\* folded into the report is the content of sink i.
C2_CompletionFinalizesOwnSession ==
    [][\A i \in TaskIds :
          CommandResult(i) =>
              /\ m.ExecutionLogPath = i
              /\ m'.ExecutionOutput.res.Output = files[i]]_vars

\* C3: after the completion event of a foreground run the application is still
\* in the Executing state, showing the report, and that state is left only by
\* an exit-view key.
C3_ResultShownWhileExecuting ==
    [][/\ \A i \in TaskIds :
             CommandResult(i) =>
                 m'.Executing /\ m'.ExecutionOutput.head = "report"
       /\ (m.Executing /\ m.ExecutionOutput.head = "report" /\ ~m'.Executing)
             => \E key \in ExitViewKeys : KeyPress(key)]_vars

\* C4: for an empty or whitespace-only command text every strategy returns an
\* error (exit code -1 where a Result is returned) and starts no process.
C4_BlankCommandFailsEverywhere ==
    (call.fn # "" /\ TrimSpace(call.command.Command) = <<>>) =>
        /\ call.out.Error # ""
        /\ call.out.hasResult => call.out.ExitCode = -1
        /\ ~call.out.started

\* C5: an execute request for an empty or whitespace-only command text creates
\* no background log file and no transient sink file.
C5_NoFileForBlankCommand ==
    \A i \in 1..Len(files) : TrimSpace(tasks[i].cmd.Command) # <<>>

\* C6: when working-directory resolution fails no child process is started, on
\* the detached, the terminal-attached and the streaming path.
C6_NoChildAfterFailedResolution ==
    /\ \A t \in terminals : resolveWorkingDir(t.command, DefaultEnv).ok
    /\ \A i \in TaskIds :
          ChildAlive(i) => resolveWorkingDir(tasks[i].cmd, DefaultEnv).ok

\* the three outcomes of C7, for the step that handles the request for c
DetachedOutcome(c) ==
    /\ tasks' = Append(tasks, Task("bg", c, m.AllCommands))
    /\ ~m'.Executing
    /\ m'.Error = ErrorText("Background task started. Log", Len(tasks'))
    /\ polls' = polls

TerminalOutcome(c) ==
    /\ tasks' = tasks
    /\ ~m'.Executing
    /\ terminals' \in {terminals, terminals \cup {openInTerminal(c)}}
    /\ polls' = polls

StreamingOutcome(c) ==
    /\ tasks' = Append(tasks, Task("fg", c, m.AllCommands))
    /\ files' = Append(files, <<>>)
    /\ m'.ExecutionLogPath = Len(files')
    /\ m'.ExecutionLogOffset = 0
    /\ m'.Executing
    /\ polls' = polls + 1

\* a file could not be created: nothing is started, the error is shown
CreationFailed(kind) ==
    /\ tasks' = tasks
    /\ files' = files
    /\ ~m'.Executing
    /\ m'.Error = ErrorText(kind, 0)
    /\ polls' = polls

\* C7 as stated: the background flag selects the detached strategy, else
\* Interactive on darwin the terminal, else streaming with a poll timer.
C7_StrategyPrecedence ==
    [][\A c \in BagToSet(execMsgs) :
          executeCommand(c) =>
              IF m.RunInBackground THEN DetachedOutcome(c)
              ELSE IF c.Interactive /\ darwin THEN TerminalOutcome(c)
              ELSE StreamingOutcome(c)]_vars

\* C7 amended: the same precedence, where the detached and the streaming
\* branch end in an error message, with nothing started, when the log file or
\* the temporary sink cannot be created.
C7_StrategyPrecedenceOrCreationError ==
    [][\A c \in BagToSet(execMsgs) :
          executeCommand(c) =>
              IF m.RunInBackground
              THEN DetachedOutcome(c) \/ CreationFailed("Failed to create background log")
              ELSE IF c.Interactive /\ darwin THEN TerminalOutcome(c)
              ELSE StreamingOutcome(c) \/ CreationFailed("Failed to create temp log")]_vars

\* a detached run of an Interactive command and a streaming run being polled
C7_Witness ==
    /\ \E i \in TaskIds : tasks[i].kind = "bg" /\ tasks[i].cmd.Interactive
    /\ \E i \in TaskIds : tasks[i].kind = "fg" /\ m.ExecutionLogPath = i
    /\ m.Executing
    /\ polls > 0

\* C8: while Executing each of esc, enter and q returns to the list and the
\* application keeps running.
C8_ExitViewKeysDoNotQuit ==
    [][\A key \in ExitViewKeys :
          (/\ m.Executing
           /\ m.CurrentMode # ModeFilterInput
           /\ ~(m.ShowForm /\ m.EditingFormField)
           /\ KeyPress(key))
          => (~m'.Executing /\ m'.ExecutingCommand = <<>> /\ ~quit')]_vars

\* the execution session state is empty
SessionEmpty(model) ==
    /\ model.ExecutingCommand = <<>>
    /\ ~model.Executing
    /\ model.ExecutionLogPath = 0
    /\ model.ExecutionLogOffset = 0

\* C9: the session state is reset to empty when the run completes and when the
\* user exits the execution view (then the scroll position is 0 too).
C9_SessionResetOnCompletionAndExit ==
    [][/\ (\E i \in TaskIds : CommandResult(i)) => SessionEmpty(m')
       /\ (m.Executing /\ ~m'.Executing /\ \E key \in ExitViewKeys : KeyPress(key))
             => (SessionEmpty(m') /\ m'.OutputScrollPosition = 0)]_vars

\* C10: no step of the state machine ends a child: a child that is alive stops
\* being alive only by its own exit.
C10_ChildEndsOnlyByItself ==
    [][\A i \in TaskIds :
          (ChildAlive(i) /\ tasks'[i].pc # "running")
              => \E code \in {0, 3} : ChildExit(i, code)]_vars

\* the view was left while the child of the streaming run is still alive
C10_Witness ==
    \E i \in TaskIds :
        tasks[i].kind = "fg" /\ ChildAlive(i) /\ ~m.Executing /\ m.ExecutionLogPath = i

\* the identifier and the last-run time of each entry of a catalog
LastRuns(cmds) == [k \in 1..Len(cmds) |-> <<cmds[k].ID, cmds[k].LastRun>>]

\* C11: a last-run timestamp changes only by a successful run: when a run that
\* ended with an error is finished, the last-run time of every entry of the
\* in-memory catalog and of the persisted catalog is what it was.
C11_LastRunOnlyOnSuccess ==
    [][\A i \in TaskIds :
          (TaskFinish(i) /\ tasks[i].res.Error # "")
              => /\ LastRuns(Elems(m.AllCommands))' = LastRuns(Elems(m.AllCommands))
                 /\ LastRuns(config)' = LastRuns(config)]_vars

\* a transition of Update
UpdateStep ==
    \/ \E key \in Keys : KeyPress(key)
    \/ \E h \in Heights : WindowSize(h)
    \/ \E c \in BagToSet(execMsgs) : StartOsascript(c) \/ executeCommand(c)
    \/ \E i \in TaskIds : CommandResult(i)
    \/ StreamPoll

\* C12: the tasks leave the loop's state alone: every step that changes the
\* model or an entry of the in-memory catalog is a transition of Update.
C12_CatalogMutatedOnlyByUpdate ==
    [][(m' # m \/ Elems(m.AllCommands)' # Elems(m.AllCommands)) => UpdateStep]_vars

\* C13: no transition of Update waits for a child process to exit.
C13_UpdateNeverWaitsForProcess ==
    blocked = <<>>

\* the loop is between two transitions and can take the next event
LoopReady == ~quit /\ blocked = <<>>

\* every key, resize and timer event that is there to be handled can be handled
\* now (an Enter that would issue an execute request: while nExec < MaxExec)
EventsHandled ==
    /\ \A key \in Keys : nExec < MaxExec => ENABLED KeyPress(key)
    /\ \A h \in Heights : ENABLED WindowSize(h)
    /\ polls > 0 => ENABLED StreamPoll

\* C14: streaming and detached runs never block the loop.  While the child of
\* a run is alive the loop takes every key, resize and timer event, and the
\* step in which a child comes alive or stops being alive is a step of the
\* run's task, which leaves the loop's state as it is.
C14_RunsNeverBlockTheLoop ==
    /\ [](\A i \in TaskIds : (ChildAlive(i) /\ LoopReady) => EventsHandled)
    /\ [][\A i \in 1..Len(tasks') :
             ((i \in TaskIds /\ ChildAlive(i)) # (tasks'[i].pc = "running"))
                 => UNCHANGED <<loopVars, blocked>>]_vars

\* a streaming child and a detached child are alive, a poll timer is pending,
\* and the user is back in the list
C14_Witness ==
    /\ \E i \in TaskIds : tasks[i].kind = "fg" /\ ChildAlive(i)
    /\ \E i \in TaskIds : tasks[i].kind = "bg" /\ ChildAlive(i)
    /\ polls > 0
    /\ LoopReady
    /\ ~m.Executing

\* C20: after any sequence of scroll keys from position 0, on an output of
\* totalLines lines in a window showing visibleLines of them, the scroll
\* position is at least 0 and at most max(0, totalLines - visibleLines).
C20_ScrollPositionClamped ==
    LET totalLines == LineCount(m.ExecutionOutput)
        visibleLines == VisibleLines(m)
    IN  /\ 0 <= m.OutputScrollPosition
        /\ m.OutputScrollPosition <= (IF totalLines - visibleLines > 0
                                      THEN totalLines - visibleLines ELSE 0)

\* the view is scrolled to the last page of an output longer than the window
C20_Witness ==
    /\ m.Executing
    /\ LineCount(m.ExecutionOutput) = MaxLines
    /\ m.OutputScrollPosition = MaxLines - VisibleLines(m)
    /\ m.OutputScrollPosition > PageSize(m)

\* the in-memory catalog
InMemory == Elems(m.AllCommands)

\* the form is shown and takes the next key
FormTakesKeys ==
    /\ m.ShowForm /\ ~m.EditingFormField
    /\ m.CurrentMode = ModeNormal /\ ~m.Executing /\ ~m.ShowHelp

\* the form holds a valid entry
ValidForm == m.FormCommand.Name # <<>> /\ m.FormCommand.Command # <<>>

UniqueIDs(cmds) == \A j, k \in 1..Len(cmds) : cmds[j].ID = cmds[k].ID => j = k

\* C15: saving a valid new entry gives it a non-empty identifier that no entry
\* of the catalog had, and the catalog grows by exactly that one record.
C15_NewEntryGetsFreshID ==
    [][(FormTakesKeys /\ ValidForm /\ m.FormCommand.ID = "" /\ KeyPress("y"))
          => /\ Len(InMemory') = Len(InMemory) + 1
             /\ InMemory'[Len(InMemory')].ID # ""
             /\ \A k \in 1..Len(InMemory) :
                   InMemory[k].ID # InMemory'[Len(InMemory')].ID]_vars

\* C16: saving a form with an empty Name or an empty command text leaves the
\* in-memory catalog, the visible list and the persisted catalog as they are,
\* sets the validation message and keeps the form open.
C16_InvalidFormChangesNothing ==
    [][(FormTakesKeys /\ ~ValidForm /\ KeyPress("y"))
          => /\ InMemory' = InMemory
             /\ Elems(m.VisibleCommands)' = Elems(m.VisibleCommands)
             /\ config' = config
             /\ m'.Error = ErrorText("Name and Command are required fields", 0)
             /\ m'.ShowForm]_vars

\* a form with a Name and no command text was refused
C16_Witness ==
    /\ m.ShowForm
    /\ m.Error = ErrorText("Name and Command are required fields", 0)
    /\ m.FormCommand.Name # <<>>
    /\ m.FormCommand.Command = <<>>

\* C17: no two entries of the in-memory catalog share an identifier, and
\* saving the form of an existing entry replaces exactly the entry with its
\* identifier, the catalog keeping its length.
C17_IdentifiersStayUnique ==
    /\ [] UniqueIDs(InMemory)
    /\ [][(FormTakesKeys /\ ValidForm /\ m.FormCommand.ID # "" /\ KeyPress("y"))
             => /\ Len(InMemory') = Len(InMemory)
                /\ \E k \in 1..Len(InMemory) : InMemory[k].ID = m.FormCommand.ID
                /\ \A k \in 1..Len(InMemory) :
                      InMemory'[k] = IF InMemory[k].ID = m.FormCommand.ID
                                     THEN m.FormCommand ELSE InMemory[k]]_vars

\* an entry was added, a loaded entry was deleted, the form of a loaded entry
\* was saved last, and a run has completed
C17_Witness ==
    /\ \E k \in 1..Len(InMemory) : \A j \in 1..Len(Catalog) : InMemory[k].ID # Catalog[j].ID
    /\ \E j \in 1..Len(Catalog) : \A k \in 1..Len(InMemory) : InMemory[k].ID # Catalog[j].ID
    /\ ~m.ShowForm
    /\ \E k \in 1..Len(InMemory), j \in 1..Len(Catalog) :
          InMemory[k].ID = Catalog[j].ID /\ m.FormCommand.ID = Catalog[j].ID
    /\ \E i \in TaskIds : tasks[i].pc = "handled"

\* C18: config.SaveConfig is called in every transition that changes the
\* in-memory catalog (a form save, a delete) and at the end of every streaming
\* run that writes a last-run time.
C18_SaveAfterEveryMutation ==
    [][/\ InMemory' # InMemory => saveCalls' = saveCalls + 1
       /\ \A i \in TaskIds :
             (TaskFinish(i) /\ heap' # heap) => saveCalls' = saveCalls + 1]_vars

\* an entry was deleted, an entry was added and a run wrote its last-run time
C18_Witness ==
    /\ saveCalls = MaxSaves
    /\ \E j \in 1..Len(Catalog) : \A k \in 1..Len(InMemory) : InMemory[k].ID # Catalog[j].ID
    /\ \E k \in 1..Len(InMemory) : \A j \in 1..Len(Catalog) : InMemory[k].ID # Catalog[j].ID
    /\ \E k \in 1..Len(InMemory) : InMemory[k].LastRun # 0

\* C19: when config.SaveConfig fails in a form save or a delete, the message
\* is set, the application keeps running, the persisted catalog is what it
\* was and the in-memory catalog has the mutation: the deleted entry is gone,
\* the saved entry is there.
C19_StorageFailureKeepsMutation ==
    [][\A key \in {"d", "y"} : \A io \in IoOutcomes(key) :
          (/\ ~io.saveOk
           /\ LoopReady
           /\ handleKeyPress(key, m, io).saved.called
           /\ Dispatch(handleKeyPress(key, m, io)))
          => /\ m'.Error = ErrorText("Failed to save config", 0)
             /\ ~quit'
             /\ config' = config
             /\ key = "d" =>
                   /\ Len(InMemory') = Len(InMemory) - 1
                   /\ \A k \in 1..Len(InMemory') : InMemory'[k].ID # Selected(m).ID
             /\ key = "y" =>
                   \E k \in 1..Len(InMemory') : InMemory'[k] = Identified(m.FormCommand)]_vars

\* a save has failed: the message is shown and the in-memory catalog is ahead
\* of the persisted one
C19_Witness ==
    /\ m.Error = ErrorText("Failed to save config", 0)
    /\ Len(InMemory) # Len(config)
    /\ ~quit

\* a streaming session is on: the execution view shows the run of a sink
SessionOn == m.Executing /\ m.ExecutionLogPath # 0

\* the child of task i has exited, or was never started
ChildExited(i) == tasks[i].pc \in {"returned", "sent", "handled"}

IsPrefix(a, b) == Len(a) <= Len(b) /\ a = SubSeq(b, 1, Len(a))

ExceptPolls ==
    <<m, heap, config, execMsgs, tasks, files, terminals, darwin, now, quit, nExec,
      call, blocked, saveCalls>>

\* C23: the timer acts only in a streaming session.  A poll tick handled
\* while Executing is false or no sink is set changes nothing and schedules no
\* further timer; a poll tick handled in a streaming session schedules exactly
\* one further timer.
C23_TimerOnlyWhileStreaming ==
    /\ []((LoopReady /\ polls > 0 /\ ~SessionOn) =>
            /\ ENABLED (StreamPoll /\ polls' = polls - 1 /\ ExceptPolls' = ExceptPolls)
            /\ ~ENABLED (StreamPoll /\ (polls' # polls - 1 \/ ExceptPolls' # ExceptPolls)))
    /\ []((LoopReady /\ polls > 0 /\ SessionOn) =>
            /\ ENABLED StreamPoll
            /\ ~ENABLED (StreamPoll /\ polls' # polls))

\* the timer of a finished session has run out: its last tick found no session
C23_Witness ==
    /\ polls = 0
    /\ ~SessionOn
    /\ \E i \in TaskIds : tasks[i].kind = "fg" /\ tasks[i].pc = "handled"

\* C24: the exit code is derived in the same way by every strategy that
\* returns a Result: it is 0 exactly when the error is nil, -1 when the command
\* text is blank, the working directory is not resolved or the error of the
\* run is not an exit error, and the exit status of the child otherwise.
C24_ExitCodeDerivation ==
    (call.fn # "" /\ call.out.hasResult) =>
        /\ (call.out.ExitCode = 0) <=> (call.out.Error = "")
        /\ call.out.ExitCode =
              IF TrimSpace(call.command.Command) = <<>> THEN -1
              ELSE IF ~resolveWorkingDir(call.command, call.env).ok THEN -1
              ELSE IF ~call.proc.starts THEN -1
              ELSE call.proc.code

\* the attached strategy reports the exit status of a child that failed
C24_Witness ==
    /\ call.fn = "ExecuteCommandInteractiveAttached"
    /\ call.out.started
    /\ call.out.ExitCode = 3
    /\ call.out.Error # ""

\* C25: every strategy builds the command line in the same way: the whole
\* text goes to the login shell when UseShell or Interactive is set, and is
\* split on whitespace into program and arguments otherwise.
C25_SameCommandLine ==
    (call.fn # "" /\ TrimSpace(call.command.Command) # <<>>) =>
        /\ call.out.prep.viaShell = (call.command.UseShell \/ call.command.Interactive)
        /\ call.out.prep.argv =
              IF call.command.UseShell \/ call.command.Interactive
              THEN <<call.command.Command>>
              ELSE Fields(call.command.Command)

\* C26: in mode "absolute" the path ${cwd}/d resolves to the directory d of the
\* caller's current directory, whatever the environment variable named cwd
\* holds, and ~/d resolves to the directory d of the home directory.
C26_PlaceholdersExpand ==
    (call.fn = "resolveWorkingDir"
        /\ NormalizeMode(call.command.WorkingDirMode) = "absolute") =>
        /\ (call.command.WorkingDirPath = <<"${cwd}", "/", "d">> /\ call.env.getwdOk)
              => (call.out.prep.err = "" /\ call.out.prep.dir = Cwd \o <<"/", "d">>)
        /\ (call.command.WorkingDirPath = <<"~", "/", "d">>
               /\ call.env.homeSet /\ call.env.homeDir = Home)
              => (call.out.prep.err = "" /\ call.out.prep.dir = Home \o <<"/", "d">>)

\* C27: the resolver returns the empty string (mode empty or "current"), or
\* an absolute path of an existing directory, or an error; mode "absolute"
\* with a blank path, a path that is not absolute after expansion or a path
\* that names no directory is an error, and so is any other mode value.
C27_ResolverTotal ==
    call.fn = "resolveWorkingDir" =>
        /\ \/ /\ call.out.prep.err = ""
              /\ call.out.prep.dir = <<>>
              /\ NormalizeMode(call.command.WorkingDirMode) \in {"", "current"}
           \/ /\ call.out.prep.err = ""
              /\ IsAbs(call.out.prep.dir)
              /\ IsDir(call.out.prep.dir)
           \/ call.out.prep.err # ""
        /\ (/\ NormalizeMode(call.command.WorkingDirMode) = "absolute"
            /\ \/ IsBlankPath(call.command.WorkingDirPath)
               \/ ~expandDirPlaceholders(call.command.WorkingDirPath, call.env).ok
               \/ ~IsAbs(expandDirPlaceholders(call.command.WorkingDirPath, call.env).dir)
               \/ ~IsDir(expandDirPlaceholders(call.command.WorkingDirPath, call.env).dir))
              => call.out.prep.err # ""
        /\ (NormalizeMode(call.command.WorkingDirMode)
               \notin {"", "current", "home", "absolute"})
              => call.out.prep.err = "unknown WorkingDirMode"

\* C28: a detached run is not tracked.  The step that launches it leaves the
\* execution view with no timer scheduled, its task never comes to return a
\* completion event, and no step of its task changes the model, the pending
\* events, the catalog in memory or the persisted catalog, however the run ends.
C28_DetachedRunNotTracked ==
    /\ [][\A c \in BagToSet(execMsgs) :
             (executeCommand(c) /\ m.RunInBackground /\ tasks' # tasks)
                 => /\ tasks'[Len(tasks')].kind = "bg"
                    /\ ~m'.Executing
                    /\ m'.ExecutingCommand = <<>>
                    /\ m'.CurrentMode = ModeNormal
                    /\ polls' = polls]_vars
    /\ [](\A i \in TaskIds :
             tasks[i].kind = "bg" => tasks[i].pc \in {"spawned", "running", "finished"})
    /\ [][\A i \in TaskIds :
             (tasks[i].kind = "bg" /\ tasks'[i] # tasks[i])
                 => UNCHANGED <<m, execMsgs, polls, heap, config, saveCalls>>]_vars

\* a detached run has failed and another has succeeded, and the list is shown
C28_Witness ==
    /\ \E i \in TaskIds :
          tasks[i].kind = "bg" /\ tasks[i].pc = "finished" /\ tasks[i].res.Error # ""
    /\ \E i \in TaskIds :
          tasks[i].kind = "bg" /\ tasks[i].pc = "finished" /\ tasks[i].res.Error = ""
    /\ ~m.Executing
    /\ config = Catalog

\* C29: the navigation keys of the form and the advance after a field is
\* committed move over the fields with wrap-around, and the active field is
\* one of the FieldCount fields.
C29_FieldNavigationWraps ==
    /\ [](m.ActiveFormField \in 0..(FieldCount - 1))
    /\ [][\A key \in {"down", "j", "tab"} :
             (FormTakesKeys /\ KeyPress(key))
                 => m'.ActiveFormField = (m.ActiveFormField + 1) % FieldCount]_vars
    /\ [][\A key \in {"up", "k", "shift+tab"} :
             (FormTakesKeys /\ KeyPress(key))
                 => m'.ActiveFormField =
                       (m.ActiveFormField + FieldCount - 1) % FieldCount]_vars
    /\ [][(m.ShowForm /\ m.EditingFormField /\ m.CurrentMode = ModeNormal
              /\ KeyPress("enter"))
             => m'.ActiveFormField = (m.ActiveFormField + 1) % FieldCount]_vars

\* the identifiers of the entries of a catalog
IDsOf(cmds) == {cmds[k].ID : k \in 1..Len(cmds)}

\* C30: the catalog a streaming run persists when it completes is the loop's
\* catalog of that moment: when the persisted catalog had the entries of the
\* in-memory catalog before the completion, it has them after it, so that an
\* entry deleted (and persisted) during the run does not come back and an
\* entry added during the run is not lost.
C30_CompletionSavesCurrentCatalog ==
    [][\A i \in TaskIds :
          (TaskFinish(i) /\ IDsOf(config) = IDsOf(InMemory))
              => IDsOf(config') = IDsOf(InMemory')]_vars

\* C31: while Executing the scroll position is at least 0 and at most
\* max(0, totalLines - visibleLines) for the output and the window height of
\* the state, whatever the order of scroll keys, resizes, poll ticks and
\* execute requests.
C31_ScrollClampedWhileExecuting ==
    m.Executing => C20_ScrollPositionClamped

\* the states other than Normal the application is in
ActiveStates ==
    {st \in {"FilterInput", "FormEdit", "Executing", "Help"} :
        \/ st = "FilterInput" /\ m.CurrentMode = ModeFilterInput
        \/ st = "FormEdit" /\ m.ShowForm
        \/ st = "Executing" /\ m.Executing
        \/ st = "Help" /\ m.ShowHelp}

\* C32: the application is in at most one of the states FilterInput,
\* FormEdit, Executing and Help at a time.
C32_OneStateAtATime ==
    Cardinality(ActiveStates) <= 1

\* C34: the selection points at a visible entry: the selected index is
\* within the visible list when the list is not empty, and 0 when it is.
C34_SelectionWithinVisibleList ==
    IF m.VisibleCommands.len > 0
    THEN 0 <= m.SelectedIndex /\ m.SelectedIndex < m.VisibleCommands.len
    ELSE m.SelectedIndex = 0

\* C33: Executing is true exactly when ExecutingCommand is set, and a step
\* that sets or clears one of them sets or clears the other.
C33_ExecutingIffCommandSet ==
    /\ [](m.Executing <=> (m.ExecutingCommand # <<>>))
    /\ [][(m'.Executing # m.Executing)
            <=> ((m'.ExecutingCommand = <<>>) # (m.ExecutingCommand = <<>>))]_vars

\* a second run is shown after the first one was left or has completed
C33_Witness ==
    /\ nExec = MaxExec
    /\ m.Executing
    /\ m.ExecutingCommand # <<>>

\* C35: at most one poll timer is outstanding at any time.
C35_AtMostOnePollTimer ==
    polls <= 1

\* run i was started in the foreground and its child has exited
RunExited(i) ==
    IF i \in TaskIds THEN tasks[i].kind = "fg" /\ ChildExited(i) ELSE FALSE

\* the loop has handled the CommandResultMsg of run i
RunHandled(i) ==
    IF i \in TaskIds THEN tasks[i].pc = "handled" ELSE FALSE

\* C36: under fair scheduling a foreground streaming run whose child has
\* exited is eventually finalized: its CommandResultMsg is handled, after
\* that step Executing is false and the sink path is empty, a step that ends
\* outside a session schedules no timer, and the timers that are outstanding
\* outside a session go away.
C36_ExitedRunIsFinalized ==
    /\ \A i \in 1..MaxExec : RunExited(i) ~> RunHandled(i)
    /\ [][\A i \in 1..Len(tasks) :
            (tasks[i].pc = "sent" /\ tasks'[i].pc = "handled")
                => (~m'.Executing /\ m'.ExecutionLogPath = 0)]_vars
    /\ [][(~m'.Executing \/ m'.ExecutionLogPath = 0) => polls' <= polls]_vars
    /\ (polls > 0 /\ ~SessionOn) ~> (polls = 0 \/ SessionOn)

\* every run has been finalized and no timer is left
C36_Witness ==
    /\ Len(tasks) = MaxExec
    /\ \A i \in 1..MaxExec : RunExited(i) /\ RunHandled(i)
    /\ ~m.Executing
    /\ m.ExecutionLogPath = 0
    /\ polls = 0
====
